---------------------------- MODULE Spec2Model ----------------------------
(***************************************************************************)
(* Model of the two sbatch wrappers of ihn-hpc-sbatch-array:               *)
(*   src/src/main.rs                    (array variant)                    *)
(*   src/src/bin/ihn-hpc-sbatch-gpu.rs  (single-job GPU variant)           *)
(*                                                                         *)
(* Text is modelled as a sequence of pieces (TLA+ strings).  User supplied *)
(* text (IMAGE, COMMAND, the argument file, --sbatch-args) is a sequence   *)
(* of one-character pieces, so that lines(), trim(), to_lowercase(),       *)
(* split_whitespace() and Path::extension() are computed character by      *)
(* character.  format!() is concatenation of pieces.  A rendered script is *)
(* a sequence of lines, each line a text.                                  *)
(***************************************************************************)
EXTENDS Integers, Sequences, FiniteSets, TLC

(***************************************************************************)
(* Bounds of the model.                                                    *)
(***************************************************************************)
\* longest generated argument-file content, in characters
MaxLen == 2
\* capacity of the pipe to sbatch's standard input, in chunks
PipeCap == 1
\* number of write(2) calls writeln!() needs for the rendered script
ScriptChunks == 2

(***************************************************************************)
(* Option<T>                                                               *)
(***************************************************************************)
None == [some |-> FALSE, val |-> <<>>]
Some(v) == [some |-> TRUE, val |-> v]

(***************************************************************************)
(* Characters                                                              *)
(***************************************************************************)
LowerOf ==
  [c \in {"A","B","C","D","E","F","G","H","I","J","K","L","M","N","O","P","Q",
          "R","S","T","U","V","W","X","Y","Z"} |->
     CASE c = "A" -> "a" [] c = "B" -> "b" [] c = "C" -> "c" [] c = "D" -> "d"
       [] c = "E" -> "e" [] c = "F" -> "f" [] c = "G" -> "g" [] c = "H" -> "h"
       [] c = "I" -> "i" [] c = "J" -> "j" [] c = "K" -> "k" [] c = "L" -> "l"
       [] c = "M" -> "m" [] c = "N" -> "n" [] c = "O" -> "o" [] c = "P" -> "p"
       [] c = "Q" -> "q" [] c = "R" -> "r" [] c = "S" -> "s" [] c = "T" -> "t"
       [] c = "U" -> "u" [] c = "V" -> "v" [] c = "W" -> "w" [] c = "X" -> "x"
       [] c = "Y" -> "y" [] c = "Z" -> "z"]

\* char::to_lowercase on the characters of the model
ToLowerChar(c) == IF c \in DOMAIN LowerOf THEN LowerOf[c] ELSE c

\* str::to_lowercase
to_lowercase(s) == [i \in 1..Len(s) |-> ToLowerChar(s[i])]

\* char::is_whitespace on the characters of the model
IsWhitespace(c) == c \in {" ", "\t", "\n", "\r"}

(***************************************************************************)
(* str::trim, str::lines, str::split_whitespace, [String]::join            *)
(***************************************************************************)
RECURSIVE TrimStart(_)
TrimStart(s) ==
  IF s # <<>> /\ IsWhitespace(Head(s)) THEN TrimStart(Tail(s)) ELSE s

RECURSIVE TrimEnd(_)
TrimEnd(s) ==
  IF s # <<>> /\ IsWhitespace(s[Len(s)])
  THEN TrimEnd(SubSeq(s, 1, Len(s) - 1))
  ELSE s

trim(s) == TrimEnd(TrimStart(s))

\* index of the first "\n" of s, 0 when there is none
FirstNewline(s) ==
  IF \E i \in 1..Len(s) : s[i] = "\n"
  THEN CHOOSE i \in 1..Len(s) : s[i] = "\n" /\ \A j \in 1..(i - 1) : s[j] # "\n"
  ELSE 0

\* a line that ended in "\n" also loses one "\r" before it
StripCR(l) ==
  IF l # <<>> /\ l[Len(l)] = "\r" THEN SubSeq(l, 1, Len(l) - 1) ELSE l

\* str::lines: "\n" terminates a line, the last line need not be terminated
RECURSIVE lines(_)
lines(s) ==
  IF s = <<>> THEN <<>>
  ELSE LET i == FirstNewline(s)
       IN IF i = 0 THEN <<s>>
          ELSE <<StripCR(SubSeq(s, 1, i - 1))>> \o lines(SubSeq(s, i + 1, Len(s)))

\* str::split_whitespace: the maximal runs of non-whitespace characters
RECURSIVE split_whitespace(_)
split_whitespace(s) ==
  LET t == TrimStart(s)
  IN IF t = <<>> THEN <<>>
     ELSE LET n == IF \E i \in 1..Len(t) : IsWhitespace(t[i])
                   THEN (CHOOSE i \in 1..Len(t) :
                           IsWhitespace(t[i]) /\ \A j \in 1..(i - 1) : ~IsWhitespace(t[j])) - 1
                   ELSE Len(t)
          IN <<SubSeq(t, 1, n)>> \o split_whitespace(SubSeq(t, n + 1, Len(t)))

\* Vec<String>::join(" ")
RECURSIVE JoinSpace(_)
JoinSpace(v) ==
  IF v = <<>> THEN <<>>
  ELSE IF Len(v) = 1 THEN v[1]
  ELSE v[1] \o <<" ">> \o JoinSpace(Tail(v))

\* the task arguments joined by " " instead of "\n": all on one line
JoinLinesOnOneLine(v) == <<JoinSpace(v)>>

\* Vec<String>::join("\n") as the lines it occupies: the join of an empty
\* vector is the empty string, which still occupies one (empty) line
JoinLines(v) == IF v = <<>> THEN << <<>> >> ELSE v


(***************************************************************************)
(* Image resolution                                                        *)
(***************************************************************************)
FreesurferShorthand == <<"f","r","e","e","s","u","r","f","e","r">>

Freesurfer == [kind |-> "Freesurfer", name |-> <<>>]
QualifiedName(n) == [kind |-> "QualifiedName", name |-> n]

\* a case-sensitive match: the to_lowercase() call forgotten
ImageMatchKeyExact(s) == s

\* the string parse_image matches against the shorthand
ImageMatchKey(s) == to_lowercase(s)

parse_image(s) ==
  IF ImageMatchKey(s) = FreesurferShorthand THEN Freesurfer ELSE QualifiedName(s)

FreesurferPodmanArgs ==
  <<"-v /mnt/apps/etc/fs_license.txt:/usr/local/freesurfer/.license:ro ",
    "-v /opt/matlab/runtime/R2019b/v97/:/usr/local/freesurfer/MCRv97 ",
    "-e FS_LICENSE=/usr/local/freesurfer/.license">>

podman_args_for_image(c) ==
  IF c.kind = "Freesurfer" THEN FreesurferPodmanArgs ELSE <<>>

FreesurferDefaultTag == <<"7.3.2">>

\* the tag applied to a qualified name instead of being ignored
qualified_image_name_tagged(image, tag) ==
  IF image.kind = "Freesurfer"
  THEN <<"docker.io/freesurfer/freesurfer:">>
         \o (IF tag.some THEN tag.val ELSE FreesurferDefaultTag)
  ELSE image.name \o (IF tag.some THEN <<":">> \o tag.val ELSE <<>>)

\* the value qualified_image_name returns
qualified_image_name(image, tag) ==
  IF image.kind = "Freesurfer"
  THEN <<"docker.io/freesurfer/freesurfer:">>
         \o (IF tag.some THEN tag.val ELSE FreesurferDefaultTag)
  ELSE image.name

\* the lines qualified_image_name prints on standard error
qualified_image_warnings(image, tag) ==
  IF image.kind = "QualifiedName" /\ tag.some
  THEN << <<"WARN: ignoring tag \"">> \o tag.val \o <<"\"">> >>
  ELSE <<>>

(***************************************************************************)
(* Command resolution                                                      *)
(***************************************************************************)
RECURSIVE StripTrailingSlashes(_)
StripTrailingSlashes(p) ==
  IF Len(p) > 1 /\ p[Len(p)] = "/"
  THEN StripTrailingSlashes(SubSeq(p, 1, Len(p) - 1))
  ELSE p

\* Path::file_name: the last component of the path
file_name(p) ==
  LET q == StripTrailingSlashes(p)
      slashes == {i \in 1..Len(q) : q[i] = "/"}
      start == IF slashes = {} THEN 1
               ELSE (CHOOSE i \in slashes : \A j \in slashes : j <= i) + 1
      f == SubSeq(q, start, Len(q))
  IN IF f = <<>> \/ f = <<".", ".">> THEN None ELSE Some(f)

\* Path::extension: what follows the last "." of the file name, unless the
\* file name has no "." or only starts with one
extension(p) ==
  LET fn == file_name(p)
  IN IF ~fn.some THEN None
     ELSE LET f == fn.val
              dots == {i \in 1..Len(f) : f[i] = "."}
          IN IF dots = {} THEN None
             ELSE LET d == CHOOSE i \in dots : \A j \in dots : j <= i
                  IN IF d = 1 THEN None ELSE Some(SubSeq(f, d + 1, Len(f)))

\* the extension compared without regard to letter case
IsHostShellScriptAnyCase(cmd, exists) ==
  exists /\ extension(cmd).some /\ to_lowercase(extension(cmd).val) = <<"s", "h">>

\* the test of `if command_path.exists() && command_path.extension()...`
IsHostShellScript(cmd, exists) ==
  exists /\ extension(cmd) = Some(<<"s", "h">>)

\* format!("-v {}:{}", mounted_command_path, mounted_command_path)
CommandVolumeArg(mounted) == <<"-v ">> \o mounted \o <<":">> \o mounted

(***************************************************************************)
(* Array-argument resolution and the sbatch command line                   *)
(***************************************************************************)
\* format!("\"{}\"", line.trim())
QuoteLine(line) == <<"\"">> \o trim(line) \o <<"\"">>

\* the closure of .filter(): it sees the line after .map() has quoted it
KeepLine(quoted) == quoted # <<>>

\* .lines().map(..).filter(..).collect()
command_arg_vec_of(text) ==
  LET ls == lines(text)
  IN SelectSeq([i \in 1..Len(ls) |-> QuoteLine(ls[i])], KeepLine)

\* Display of usize::MAX on the 64-bit targets of the cluster: what
\* 0usize - 1 is when the build carries no overflow checks
UsizeMaxText == "18446744073709551615"

\* format!("--array=0-{}%{}", last, max_tasks), `last` already displayed
ArrayFlag(last, max_tasks) ==
  <<"--array=0-", last, "%", ToString(max_tasks)>>

GpuFlag == <<"--gres=gpu:a100:1">>

\* sbatch_command.args(args.split_whitespace())
ExtraSbatchArgs(opt) == IF opt.some THEN split_whitespace(opt.val) ELSE <<>>

(***************************************************************************)
(* Script templates.  A "\" before a line break in a Rust string literal   *)
(* swallows the line break and the indentation that follows it, so the     *)
(* srun command is one line of the script.                                 *)
(***************************************************************************)
Shebang == <<"#!/bin/bash">>
SetU == <<"set -u">>
TmpdirExport == <<"export TMPDIR=/ssd/home/$USER/TEMP">>
ArrayOpen == <<"COMMAND_ARGS=(">>
ArrayClose == <<")">>

\* the fixed lines the array template starts with
ArrayPreambleHead == <<Shebang, SetU, TmpdirExport, ArrayOpen>>

SrunArray(volume, additional, cmd, podman, image) ==
  <<"srun --ntasks=1 podman run --rm ",
    "-v \"$HOME\":\"$HOME\" ",
    "-v /mnt/home/shared/:/mnt/home/shared/ ">>
  \o volume \o <<" ">>
  \o additional \o <<" ">>
  \o <<"--authfile /mnt/apps/etc/auth.json ", "--entrypoint ">> \o cmd \o <<" ">>
  \o podman \o <<" ">>
  \o image \o <<" \"${COMMAND_ARGS[$SLURM_ARRAY_TASK_ID]}\"">>

SrunGpu(volume, additional, cmd, podman, image, cargs) ==
  <<"srun --ntasks=1 podman run --rm ",
    "--security-opt=label=disable ",
    "--device=nvidia.com/gpu=all ",
    "-v \"$HOME\":\"$HOME\" ",
    "-e HPC_HOME=\"$HOME\" ",
    "-v /mnt/home/shared/:/mnt/home/shared/ ">>
  \o volume \o <<" ">>
  \o additional \o <<" ">>
  \o <<"--authfile /mnt/apps/etc/auth.json ", "--entrypoint ">> \o cmd \o <<" ">>
  \o podman \o <<" ">>
  \o image \o <<" ">> \o cargs

\* the script writeln!() renders in main.rs
RenderArray(vec, volume, cmd, a) ==
  ArrayPreambleHead
  \o JoinLines(vec)
  \o <<ArrayClose,
       SrunArray(volume, podman_args_for_image(a.image), cmd,
                 IF a.podman_args.some THEN a.podman_args.val ELSE <<>>,
                 qualified_image_name(a.image, a.tag))>>

\* the script writeln!() renders in ihn-hpc-sbatch-gpu.rs
RenderGpu(volume, cmd, a) ==
  <<Shebang, SetU, TmpdirExport,
    SrunGpu(volume, podman_args_for_image(a.image), cmd,
            IF a.podman_args.some THEN a.podman_args.val ELSE <<>>,
            qualified_image_name(a.image, a.tag),
            JoinSpace(a.command_args))>>

(***************************************************************************)
(* Error reports: `eprintln!("ERROR: {what:#}")` prints the context, then  *)
(* ": " and the cause when there is one.                                   *)
(***************************************************************************)
OsError == <<"os error">>

ReadContext(path) ==
  <<"Unable to read command argument file, ", "\"">> \o path \o <<"\"">>

CanonContext(cmd) ==
  <<"It looks like \"">> \o cmd
  \o <<"\" is a shell script, but a canonical path cannot be determined for mounting in each container">>

Utf8Context(cmd) == <<"\"">> \o cmd \o <<"\" is not valid UTF-8">>

SpawnContext == <<"Unable to invoke sbatch">>

ErrorWithCause(ctx) == <<"ERROR: ">> \o ctx \o <<": ">> \o OsError
ErrorPlain(ctx) == <<"ERROR: ">> \o ctx
NonZeroReport == <<"ERROR: Something went wrong...">>
OverflowPanic == <<"thread 'main' panicked: attempt to subtract with overflow">>


(***************************************************************************)
(* Inputs: the parsed command line and what the host answers.              *)
(***************************************************************************)
DefaultMaxTasks == 16
PanicExitCode == 101

Alphabet == {"A", " ", "\n"}

\* the example argument file of the documentation: "A\n  B  \n\nC\n"
ExampleContent == <<"A", "\n", " ", " ", "B", " ", " ", "\n", "\n", "C", "\n">>
\* five task lines and no blank one
FiveLines == <<"A", "\n", "B", "\n", "C", "\n", "D", "\n", "E">>

Contents ==
  UNION {[1..n -> Alphabet] : n \in 0..MaxLen} \cup {ExampleContent, FiveLines}

Images ==
  { FreesurferShorthand,
    <<"F","r","e","e","S","u","r","f","e","r">>,
    <<"F","R","E","E","S","U","R","F","E","R">>,
    <<"f","r","e","e","s","u","r","f">>,
    <<"Q","/","I","m","g",":","1">> }

Tags == {None, Some(<<"7.4.1">>)}

Commands ==
  { <<"r", ".", "s", "h">>,
    <<"r", ".", "S", "H">>,
    <<".", "s", "h">>,
    <<"d", ".", "s", "h", "/", "r">>,
    <<"r", "e", "c">> }

CanonicalPaths == { <<"/", "w", "/", "r", ".", "s", "h">>, <<"/", "t">> }

SbatchArgsChoices == {None, Some(<<"-", "p", " ", " ", "g">>)}
PodmanArgsChoices == {None, Some(<<"--gpus all">>)}
CommandArgsChoices == {<<>>, << <<"-x">>, <<"y">> >>}
ArgPaths == { <<"args.txt">> }

\* exit statuses sbatch may report
ChildStatuses == {0, 2}

VARIABLES
  variant,            \* "array" (main.rs) or "gpu" (ihn-hpc-sbatch-gpu.rs)
  cli_image,          \* the IMAGE string of the command line
  args,               \* Args, as Args::parse() returns it
  pc,                 \* where run() is
  content,            \* what read_to_string returned
  command_arg_vec,
  host,               \* what the host answered about COMMAND
  command,
  command_volume_arg,
  sbatch_argv,        \* the arguments given to sbatch
  child,              \* "none", "running", "exited"
  child_status,       \* <<>> or <<status>>
  stdin_open,         \* the generator holds the write end of the pipe
  pipe,               \* chunks in the pipe
  written,            \* chunks of the script written so far
  script,             \* the rendered script (its lines)
  stderr,             \* the lines printed on standard error
  exit_code,          \* <<>> while running, <<code>> once the process ended
  ops                 \* the external operations performed so far and how
                      \* each ended, in order

vars == <<variant, cli_image, args, pc, content, command_arg_vec, host, command,
          command_volume_arg, sbatch_argv, child, child_status, stdin_open,
          pipe, written, script, stderr, exit_code, ops>>

inputVars == <<variant, cli_image, args>>
resolvedVars == <<content, command_arg_vec, host, command, command_volume_arg>>
childVars == <<child, child_status, stdin_open, pipe, written>>

ArgsFor(v, img) ==
  { [ max_tasks |-> m, tag |-> t, sbatch_args |-> sa, podman_args |-> pa,
      image |-> parse_image(img), command |-> c, command_arg_path |-> ap,
      command_args |-> ca ] :
      m \in (IF v = "array" THEN {DefaultMaxTasks, 2} ELSE {DefaultMaxTasks}),
      t \in Tags, sa \in SbatchArgsChoices, pa \in PodmanArgsChoices,
      c \in Commands, ap \in ArgPaths,
      ca \in (IF v = "gpu" THEN CommandArgsChoices ELSE {<<>>}) }

NoHost == [exists |-> FALSE, canon |-> "none", path |-> <<>>]

InitRest ==
  /\ pc = IF variant = "array" THEN "read" ELSE "resolve"
  /\ content = None
  /\ command_arg_vec = <<>>
  /\ host = NoHost
  /\ command = <<>>
  /\ command_volume_arg = <<>>
  /\ sbatch_argv = <<>>
  /\ child = "none"
  /\ child_status = <<>>
  /\ stdin_open = FALSE
  /\ pipe = 0
  /\ written = 0
  /\ script = <<>>
  /\ stderr = <<>>
  /\ exit_code = <<>>
  /\ ops = <<>>

Init ==
  /\ variant \in {"array", "gpu"}
  /\ cli_image \in Images
  /\ args \in ArgsFor(variant, cli_image)
  /\ InitRest

(***************************************************************************)
(* main(): an Err of run() is printed and the process ends with FAILURE.   *)
(***************************************************************************)
Fail(msg) ==
  /\ stderr' = Append(stderr, msg)
  /\ exit_code' = <<1>>
  /\ pc' = "exited"

\* the exit code main() makes of the ExitStatus run() returned
ExitCodeOf(status) == IF status = 0 THEN 0 ELSE 1

(***************************************************************************)
(* run()                                                                   *)
(***************************************************************************)
\* the read error swallowed (unwrap_or_default): run() goes on with no lines
ReadFailedIgnored ==
  /\ ops' = Append(ops, "read_failed")
  /\ pc' = "resolve"
  /\ UNCHANGED <<resolvedVars, stderr, exit_code>>

\* what run() does when read_to_string fails
ReadFailed ==
  /\ ops' = Append(ops, "read_failed")
  /\ Fail(ErrorWithCause(ReadContext(args.command_arg_path)))
  /\ UNCHANGED resolvedVars

ReadArgFile ==
  /\ pc = "read"
  /\ \/ \E text \in Contents :
          /\ ops' = Append(ops, "read")
          /\ content' = Some(text)
          /\ command_arg_vec' = command_arg_vec_of(text)
          /\ pc' = "resolve"
          /\ UNCHANGED <<host, command, command_volume_arg, stderr, exit_code>>
     \/ ReadFailed
  /\ UNCHANGED <<inputVars, sbatch_argv, childVars, script>>

ResolveCommand ==
  /\ pc = "resolve"
  /\ \E exists \in BOOLEAN :
       IF IsHostShellScript(args.command, exists)
       THEN \/ \E p \in CanonicalPaths :
                 /\ host' = [exists |-> TRUE, canon |-> "ok", path |-> p]
                 /\ command' = p
                 /\ command_volume_arg' = CommandVolumeArg(p)
                 /\ pc' = "build"
                 /\ UNCHANGED <<stderr, exit_code>>
            \/ /\ host' = [exists |-> TRUE, canon |-> "err", path |-> <<>>]
               /\ Fail(ErrorWithCause(CanonContext(args.command)))
               /\ UNCHANGED <<command, command_volume_arg>>
            \/ /\ host' = [exists |-> TRUE, canon |-> "not_utf8", path |-> <<>>]
               /\ Fail(ErrorPlain(Utf8Context(args.command)))
               /\ UNCHANGED <<command, command_volume_arg>>
       ELSE /\ host' = [exists |-> exists, canon |-> "none", path |-> <<>>]
            /\ command' = args.command
            /\ command_volume_arg' = <<>>
            /\ pc' = "build"
            /\ UNCHANGED <<stderr, exit_code>>
  /\ UNCHANGED <<inputVars, content, command_arg_vec, sbatch_argv, childVars,
                 script, ops>>

\* command_arg_vec.len() - 1 on usize: with overflow checks (a debug build) an
\* empty vector panics, without them (a release build) the value wraps
BuildSbatchCommand ==
  /\ pc = "build"
  /\ IF variant = "array"
     THEN IF Len(command_arg_vec) = 0
          THEN \/ /\ stderr' = Append(stderr, OverflowPanic)
                  /\ exit_code' = <<PanicExitCode>>
                  /\ pc' = "exited"
                  /\ UNCHANGED sbatch_argv
               \/ /\ sbatch_argv' = <<ArrayFlag(UsizeMaxText, args.max_tasks)>>
                                      \o ExtraSbatchArgs(args.sbatch_args)
                  /\ pc' = "spawn"
                  /\ UNCHANGED <<stderr, exit_code>>
          ELSE /\ sbatch_argv' =
                    <<ArrayFlag(ToString(Len(command_arg_vec) - 1), args.max_tasks)>>
                      \o ExtraSbatchArgs(args.sbatch_args)
               /\ pc' = "spawn"
               /\ UNCHANGED <<stderr, exit_code>>
     ELSE /\ sbatch_argv' = <<GpuFlag>> \o ExtraSbatchArgs(args.sbatch_args)
          /\ pc' = "spawn"
          /\ UNCHANGED <<stderr, exit_code>>
  /\ UNCHANGED <<inputVars, resolvedVars, childVars, script, ops>>

\* the spawn error swallowed: run() goes on to render and write
SpawnFailedIgnored ==
  /\ ops' = Append(ops, "spawn_failed")
  /\ pc' = "render"
  /\ UNCHANGED <<childVars, stderr, exit_code>>

\* what run() does when spawn() fails
SpawnFailed ==
  /\ ops' = Append(ops, "spawn_failed")
  /\ Fail(ErrorWithCause(SpawnContext))
  /\ UNCHANGED childVars

Spawn ==
  /\ pc = "spawn"
  /\ \/ /\ ops' = Append(ops, "spawn")
        /\ child' = "running"
        /\ stdin_open' = TRUE
        /\ pc' = "render"
        /\ UNCHANGED <<child_status, pipe, written, stderr, exit_code>>
     \/ SpawnFailed
  /\ UNCHANGED <<inputVars, resolvedVars, sbatch_argv, script>>

\* the arguments of writeln!() are evaluated before anything is written
Render ==
  /\ pc = "render"
  /\ script' = IF variant = "array"
               THEN RenderArray(command_arg_vec, command_volume_arg, command, args)
               ELSE RenderGpu(command_volume_arg, command, args)
  /\ stderr' = stderr \o qualified_image_warnings(args.image, args.tag)
  /\ pc' = "write"
  /\ UNCHANGED <<inputVars, resolvedVars, sbatch_argv, childVars, exit_code, ops>>

LogWrite == IF written = 0 THEN Append(ops, "write") ELSE ops

\* one write(2) of writeln!(): it blocks while the pipe is full
WriteChunk ==
  /\ pc = "write"
  /\ written < ScriptChunks
  /\ child = "running"
  /\ pipe < PipeCap
  /\ pipe' = pipe + 1
  /\ written' = written + 1
  /\ ops' = LogWrite
  /\ UNCHANGED <<inputVars, resolvedVars, sbatch_argv, child, child_status,
                 stdin_open, script, stderr, exit_code, pc>>

\* the read end is gone: write(2) fails with EPIPE and `?` returns the error
WriteBrokenPipe ==
  /\ pc = "write"
  /\ written < ScriptChunks
  /\ child = "exited"
  /\ ops' = Append(LogWrite, "write_failed")
  /\ stdin_open' = FALSE
  /\ Fail(ErrorPlain(<<"Broken pipe (os error 32)">>))
  /\ UNCHANGED <<inputVars, resolvedVars, sbatch_argv, child, child_status,
                 pipe, written, script>>

\* stdin bound outside the block: it is still open when wait() is called
DropStdinKeepsPipe ==
  /\ pc = "write"
  /\ written = ScriptChunks
  /\ pc' = "wait"
  /\ UNCHANGED <<inputVars, resolvedVars, sbatch_argv, childVars, script,
                 stderr, exit_code, ops>>

\* the end of the `if let Some(mut stdin)` block drops stdin; wait() follows
DropStdin ==
  /\ pc = "write"
  /\ written = ScriptChunks
  /\ stdin_open' = FALSE
  /\ ops' = Append(ops, "drop")
  /\ pc' = "wait"
  /\ UNCHANGED <<inputVars, resolvedVars, sbatch_argv, child, child_status,
                 pipe, written, script, stderr, exit_code>>

\* wait() returns once the child has exited
WaitReturns ==
  /\ pc = "wait"
  /\ child = "exited"
  /\ ops' = Append(ops, "wait")
  /\ exit_code' = <<ExitCodeOf(child_status[1])>>
  /\ stderr' = IF child_status[1] = 0 THEN stderr ELSE Append(stderr, NonZeroReport)
  /\ pc' = "exited"
  /\ UNCHANGED <<inputVars, resolvedVars, sbatch_argv, childVars, script>>

\* wait() itself fails
WaitFails ==
  /\ pc = "wait"
  /\ child = "exited"
  /\ ops' = Append(ops, "wait_failed")
  /\ Fail(ErrorPlain(OsError))
  /\ UNCHANGED <<inputVars, resolvedVars, sbatch_argv, childVars, script>>

(***************************************************************************)
(* sbatch, the child                                                       *)
(***************************************************************************)
ChildRead ==
  /\ pc # "exited"
  /\ child = "running"
  /\ pipe > 0
  /\ pipe' = pipe - 1
  /\ UNCHANGED <<inputVars, resolvedVars, sbatch_argv, child, child_status,
                 stdin_open, written, script, stderr, exit_code, pc, ops>>

\* the child has read everything, sees end-of-file and exits
ChildExitAfterEOF ==
  /\ pc # "exited"
  /\ child = "running"
  /\ pipe = 0
  /\ ~stdin_open
  /\ \E s \in ChildStatuses : child_status' = <<s>>
  /\ child' = "exited"
  /\ UNCHANGED <<inputVars, resolvedVars, sbatch_argv, stdin_open, pipe, written,
                 script, stderr, exit_code, pc, ops>>

\* the child exits (or is killed) before it has seen end-of-file
ChildExitEarly ==
  /\ pc # "exited"
  /\ child = "running"
  /\ stdin_open \/ pipe > 0
  /\ \E s \in ChildStatuses : child_status' = <<s>>
  /\ child' = "exited"
  /\ pipe' = 0
  /\ UNCHANGED <<inputVars, resolvedVars, sbatch_argv, stdin_open, written,
                 script, stderr, exit_code, pc, ops>>

Next ==
  \/ ReadArgFile
  \/ ResolveCommand
  \/ BuildSbatchCommand
  \/ Spawn
  \/ Render
  \/ WriteChunk
  \/ WriteBrokenPipe
  \/ DropStdin
  \/ WaitReturns
  \/ WaitFails
  \/ ChildRead
  \/ ChildExitAfterEOF
  \/ ChildExitEarly

Spec == Init /\ [][Next]_vars


(***************************************************************************)
(* The generator with a child that reads its standard input to             *)
(* end-of-file and then exits, every process being scheduled.              *)
(***************************************************************************)
LiveInit ==
  /\ variant \in {"array", "gpu"}
  /\ cli_image \in {FreesurferShorthand, <<"Q","/","I","m","g",":","1">>}
  /\ args \in {a \in ArgsFor(variant, cli_image) :
                 /\ a.max_tasks = DefaultMaxTasks
                 /\ a.sbatch_args = None
                 /\ a.podman_args = None
                 /\ a.command_args = <<>>
                 /\ a.command \in {<<"r", ".", "s", "h">>, <<"r", "e", "c">>}}
  /\ InitRest

LiveNext ==
  \/ ReadArgFile
  \/ ResolveCommand
  \/ BuildSbatchCommand
  \/ Spawn
  \/ Render
  \/ WriteChunk
  \/ DropStdin
  \/ WaitReturns
  \/ WaitFails
  \/ ChildRead
  \/ ChildExitAfterEOF

\* the steps of the generator once sbatch runs, and the steps of sbatch
GenStep == Render \/ WriteChunk \/ DropStdin \/ WaitReturns \/ WaitFails
ChildStep == ChildRead \/ ChildExitAfterEOF

\* both processes are scheduled: a step that stays possible is taken
LiveSpec ==
  LiveInit /\ [][LiveNext]_vars /\ WF_vars(GenStep) /\ WF_vars(ChildStep)

(***************************************************************************)
(* Vocabulary of the properties                                            *)
(***************************************************************************)
\* text `sub` occurs in text `t` starting at piece i
OccursAt(t, sub, i) ==
  i + Len(sub) - 1 <= Len(t) /\ SubSeq(t, i, i + Len(sub) - 1) = sub

Contains(t, sub) == \E i \in 1..Len(t) : OccursAt(t, sub, i)

Occurrences(t, sub) == Cardinality({i \in 1..Len(t) : OccursAt(t, sub, i)})

EndsWith(t, sub) ==
  Len(sub) <= Len(t) /\ SubSeq(t, Len(t) - Len(sub) + 1, Len(t)) = sub

\* how often operation `o` was performed
Times(o) == Cardinality({i \in 1..Len(ops) : ops[i] = o})

Did(o) == Times(o) > 0

Rendered == script # <<>>

\* the srun line, the last line of a rendered script
SrunLine == script[Len(script)]

UpperCaseLetters ==
  <<"A","B","C","D","E","F","G","H","I","J","K","L","M","N","O","P","Q","R","S",
    "T","U","V","W","X","Y","Z">>
LowerCaseLetters ==
  <<"a","b","c","d","e","f","g","h","i","j","k","l","m","n","o","p","q","r","s",
    "t","u","v","w","x","y","z">>

\* the same character, or the same letter in the other case
SameLetter(c, d) ==
  \/ c = d
  \/ \E k \in 1..Len(UpperCaseLetters) :
       {c, d} = {UpperCaseLetters[k], LowerCaseLetters[k]}

EqualsIgnoringCase(a, b) ==
  Len(a) = Len(b) /\ \A i \in 1..Len(a) : SameLetter(a[i], b[i])

IsFreesurferName(s) ==
  EqualsIgnoringCase(s, <<"f","r","e","e","s","u","r","f","e","r">>)

\* a line that is not blank: it holds a character that is not whitespace
NonBlank(line) == \E i \in 1..Len(line) : line[i] \notin {" ", "\t", "\n", "\r"}

\* the lines of a text, cut at each "\n"
RECURSIVE CutLines(_, _)
CutLines(text, cur) ==
  IF text = <<>> THEN (IF cur = <<>> THEN <<>> ELSE <<cur>>)
  ELSE IF Head(text) = "\n" THEN <<cur>> \o CutLines(Tail(text), <<>>)
  ELSE CutLines(Tail(text), Append(cur, Head(text)))

\* a line without the whitespace around it
RECURSIVE Strip(_)
Strip(line) ==
  IF line = <<>> THEN line
  ELSE IF Head(line) \in {" ", "\t", "\n", "\r"} THEN Strip(Tail(line))
  ELSE IF line[Len(line)] \in {" ", "\t", "\n", "\r"}
       THEN Strip(SubSeq(line, 1, Len(line) - 1))
  ELSE line

\* the task list the documentation describes: one quoted element per
\* non-blank line, in file order
SurvivingLines(text) == SelectSeq(CutLines(text, <<>>), NonBlank)

ExpectedTaskList(text) ==
  LET ls == SurvivingLines(text)
  IN [i \in 1..Len(ls) |-> <<"\"">> \o Strip(ls[i]) \o <<"\"">>]

\* COMMAND ends in ".sh" after a non-empty file stem
HasShExtension(cmd) ==
  /\ Len(cmd) > 3
  /\ SubSeq(cmd, Len(cmd) - 2, Len(cmd)) = <<".", "s", "h">>
  /\ cmd[Len(cmd) - 3] # "/"

\* the text after "--entrypoint " in the srun line starts with `value` and a space
EntrypointIs(value) == Contains(SrunLine, <<"--entrypoint ">> \o value \o <<" ">>)

\* what follows the image reference in the srun line
AfterImage ==
  IF variant = "array"
  THEN <<" \"${COMMAND_ARGS[$SLURM_ARRAY_TASK_ID]}\"">>
  ELSE <<" ">> \o JoinSpace(args.command_args)

\* the image reference of the srun line is `ref`
ImageRefIs(ref) == EndsWith(SrunLine, <<" ">> \o ref \o AfterImage)

\* the last line printed on standard error is an error report
LastIsError ==
  /\ stderr # <<>>
  /\ stderr[Len(stderr)][1] \in {"ERROR: ", "ERROR: Something went wrong..."}


(***************************************************************************)
(* Properties                                                              *)
(***************************************************************************)

\* C1: once the argument file has been read, the per-task list holds exactly
\* one quoted, trimmed element per non-blank line of the file, in file order;
\* blank lines yield no element.
C1_TaskListDropsBlankLines ==
  content.some => command_arg_vec = ExpectedTaskList(content.val)

\* C2: in array mode, for a file with at least one non-blank line, the first
\* argument of sbatch is "--array=0-N%M" with N one less than the number of
\* non-blank lines and M the --max-tasks value.
C2_ArrayFlagCountsSurvivingLines ==
  (/\ variant = "array"
   /\ sbatch_argv # <<>>
   /\ SurvivingLines(content.val) # <<>>)
  => sbatch_argv[1] =
       <<"--array=0-", ToString(Len(SurvivingLines(content.val)) - 1), "%",
         ToString(args.max_tasks)>>

\* C3: the process always ends with exit code 0 or 1, never by a panic: 0
\* only when sbatch was spawned and reported status zero, and otherwise 1
\* with an error report as the last line of standard error.
C3_CleanExit ==
  exit_code # <<>> =>
    /\ exit_code[1] \in {0, 1}
    /\ exit_code[1] = 0 => (Did("spawn") /\ Did("wait") /\ child_status = <<0>>)
    /\ (Did("wait") /\ child_status = <<0>>) => exit_code[1] = 0
    /\ exit_code[1] = 1 => LastIsError

\* C4 (in every state): the script is written, the pipe dropped and the
\* wait started in this order and each at most once, and the generator is
\* never in the wait while it holds the write end of the pipe.
C4_Order ==
  /\ \A o \in {"write", "write_failed", "drop", "wait", "wait_failed"} : Times(o) <= 1
  /\ Times("wait") + Times("wait_failed") <= 1
  /\ \A i, j \in 1..Len(ops) :
       /\ (ops[i] = "write" /\ ops[j] \in {"drop", "wait", "wait_failed"}) => i < j
       /\ (ops[i] = "drop" /\ ops[j] \in {"wait", "wait_failed"}) => i < j
  /\ Did("write") => Did("spawn")
  /\ Did("drop") => (Did("write") /\ written = ScriptChunks)
  /\ (pc = "wait" \/ Did("wait") \/ Did("wait_failed")) => Did("drop")
  /\ pc = "wait" => (~stdin_open /\ written = ScriptChunks)

\* C4: the order above always holds, and with a child that reads its
\* standard input to end-of-file and then exits, the generator ends.
C4_WriteDropWait ==
  /\ []C4_Order
  /\ (child = "running") ~> (pc = "exited")

C4_Witness ==
  /\ pc = "exited"
  /\ Did("wait")
  /\ ops[Len(ops) - 2] = "write"
  /\ ops[Len(ops) - 1] = "drop"

\* C5: when spawning sbatch fails, in both variants the process ends with
\* exit code 1 and a report containing "Unable to invoke sbatch"; nothing is
\* rendered or written and no wait is performed.
C5_SpawnFailure ==
  Did("spawn_failed") =>
    /\ pc = "exited"
    /\ exit_code = <<1>>
    /\ LastIsError
    /\ Contains(stderr[Len(stderr)], <<"Unable to invoke sbatch">>)
    /\ ~Rendered
    /\ written = 0 /\ pipe = 0
    /\ ~Did("write") /\ ~Did("write_failed")
    /\ ~Did("wait") /\ ~Did("wait_failed")
    /\ child = "none"

C5_Witness ==
  /\ variant = "gpu"
  /\ Did("spawn_failed")
  /\ pc = "exited"

\* C6: in a rendered script, a COMMAND that exists on the host and has the
\* extension "sh" appears as its canonical path P after --entrypoint, with
\* exactly one added bind-mount "-v P:P"; any other COMMAND appears unmodified
\* after --entrypoint, with no added bind-mount.
C6_CommandResolution ==
  Rendered =>
    IF host.exists /\ HasShExtension(args.command)
    THEN /\ host.canon = "ok"
         /\ EntrypointIs(host.path)
         /\ Occurrences(SrunLine, <<"-v ">> \o host.path \o <<":">> \o host.path \o <<" ">>) = 1
         /\ Occurrences(SrunLine, <<"-v ">>) = 1
    ELSE /\ EntrypointIs(args.command)
         /\ Occurrences(SrunLine, <<"-v ">>) = 0

C6_Witness ==
  /\ Rendered
  /\ host.exists
  /\ HasShExtension(args.command)
  /\ host.path # args.command

\* C7: an IMAGE that equals "freesurfer" ignoring letter case resolves to the
\* Freesurfer family; its rendered script carries the license mount, the
\* MATLAB runtime mount and FS_LICENSE, and the image reference
\* docker.io/freesurfer/freesurfer:<tag>, <tag> being --tag or else 7.3.2.
C7_KnownImage ==
  IsFreesurferName(cli_image) =>
    /\ args.image.kind = "Freesurfer"
    /\ Rendered =>
         /\ Contains(SrunLine,
              <<"-v /mnt/apps/etc/fs_license.txt:/usr/local/freesurfer/.license:ro ",
                "-v /opt/matlab/runtime/R2019b/v97/:/usr/local/freesurfer/MCRv97 ",
                "-e FS_LICENSE=/usr/local/freesurfer/.license", " ">>)
         /\ ImageRefIs(<<"docker.io/freesurfer/freesurfer:">>
                         \o (IF args.tag.some THEN args.tag.val ELSE <<"7.3.2">>))

C7_Witness ==
  /\ Rendered
  /\ cli_image = <<"F","R","E","E","S","U","R","F","E","R">>
  /\ ~args.tag.some

\* C8: an IMAGE that matches no shorthand is the image reference of the
\* rendered script byte for byte, with no Freesurfer argument attached; a
\* --tag leaves that reference alone and only prints a warning, and the
\* process still exits 0 when sbatch succeeds.
C8_QualifiedName ==
  ~IsFreesurferName(cli_image) =>
    /\ args.image.kind = "QualifiedName"
    /\ Rendered =>
         /\ ImageRefIs(cli_image)
         /\ \A i \in 1..Len(FreesurferPodmanArgs) :
              ~Contains(SrunLine, <<FreesurferPodmanArgs[i]>>)
         /\ args.tag.some =>
              Contains(stderr, << <<"WARN: ignoring tag \"">> \o args.tag.val \o <<"\"">> >>)
    /\ (Did("wait") /\ child_status = <<0>>) => exit_code = <<0>>

C8_Witness ==
  /\ cli_image = <<"Q","/","I","m","g",":","1">>
  /\ args.tag.some
  /\ Did("wait")
  /\ exit_code = <<0>>

\* C9 as stated: in array mode the script starts with the shebang, `set -u`,
\* the TMPDIR export, a REGISTRY_AUTH_FILE export and the COMMAND_ARGS array
\* holding the task list one element per line, and the srun line follows.
C9_PreambleWithRegistryAuth ==
  (variant = "array" /\ Rendered) =>
    /\ Len(script) >= 7
    /\ script[1] = <<"#!/bin/bash">>
    /\ script[2] = <<"set -u">>
    /\ script[3] = <<"export TMPDIR=/ssd/home/$USER/TEMP">>
    /\ script[4] # <<>> /\ script[4][1] = "export REGISTRY_AUTH_FILE="
    /\ script[5] = <<"COMMAND_ARGS=(">>
    /\ SubSeq(script, 6, Len(script) - 2) =
         (IF command_arg_vec = <<>> THEN << <<>> >> ELSE command_arg_vec)
    /\ script[Len(script) - 1] = <<")">>

\* C9 as amended: in array mode the script starts with the shebang, `set -u`,
\* the TMPDIR export and the COMMAND_ARGS array holding the resolved task
\* list one element per line in order (one empty line when the list is
\* empty); the srun line follows and no line exports REGISTRY_AUTH_FILE.
C9_Preamble ==
  (variant = "array" /\ Rendered) =>
    /\ Len(script) >= 6
    /\ script[1] = <<"#!/bin/bash">>
    /\ script[2] = <<"set -u">>
    /\ script[3] = <<"export TMPDIR=/ssd/home/$USER/TEMP">>
    /\ script[4] = <<"COMMAND_ARGS=(">>
    /\ SubSeq(script, 5, Len(script) - 2) =
         (IF command_arg_vec = <<>> THEN << <<>> >> ELSE command_arg_vec)
    /\ script[Len(script) - 1] = <<")">>
    /\ SrunLine[1] = "srun --ntasks=1 podman run --rm "
    /\ \A i \in 1..Len(script) : script[i] = <<>> \/ script[i][1] # "export REGISTRY_AUTH_FILE="

C9_Witness ==
  /\ variant = "array"
  /\ Rendered
  /\ Len(command_arg_vec) >= 2

\* C10: sbatch is spawned at most once and only after argument resolution
\* succeeded; a failed read of the argument file, or a failed resolution of
\* an existing .sh COMMAND, is reported with the offending path, ends the
\* process with exit code 1, and nothing is spawned, rendered or written; no
\* operation is performed twice.
C10_NoSpawnAfterFailedResolution ==
  /\ Times("spawn") + Times("spawn_failed") <= 1
  /\ Times("read") + Times("read_failed") <= 1
  /\ Times("write") <= 1 /\ Times("write_failed") <= 1
  /\ Times("wait") + Times("wait_failed") <= 1
  /\ (Did("spawn") \/ Did("spawn_failed")) =>
       /\ variant = "array" => (Did("read") /\ content.some)
       /\ host.canon \in {"none", "ok"}
       /\ command # <<>>
  /\ (variant = "array" /\ pc # "read" /\ ~content.some) =>
       /\ pc = "exited" /\ exit_code = <<1>>
       /\ LastIsError
       /\ Contains(stderr[Len(stderr)], args.command_arg_path)
       /\ ~Did("spawn") /\ ~Did("spawn_failed") /\ ~Rendered /\ written = 0
       /\ child = "none"
  /\ host.canon \in {"err", "not_utf8"} =>
       /\ pc = "exited" /\ exit_code = <<1>>
       /\ LastIsError
       /\ Contains(stderr[Len(stderr)], args.command)
       /\ ~Did("spawn") /\ ~Did("spawn_failed") /\ ~Rendered /\ written = 0
       /\ child = "none"

C10_Witness ==
  /\ variant = "array"
  /\ Did("read_failed")
  /\ pc = "exited"

=============================================================================
